---- MODULE Spec2Model ----
(***************************************************************************)
(* Sound Wave Analysis: a model of the WAV reading, level analysis,        *)
(* harmonic detection, plotting hand-off and dashboard control flow.       *)
(*                                                                         *)
(* Conventions.                                                            *)
(*  - Sequences are 1-based; a numpy index i is the sequence index i+1.    *)
(*  - A call that can raise returns [ok |-> TRUE, val |-> v] or            *)
(*    [ok |-> FALSE, err |-> <exception name>].                            *)
(*  - A float quotient a/b of two integers is kept exactly as the pair     *)
(*    [num |-> a, den |-> b].                                              *)
(*  - A decibel value c*log10(q) is kept symbolically by its argument q;   *)
(*    comparisons with a threshold use that log10 is increasing.           *)
(***************************************************************************)
EXTENDS Integers, Sequences, FiniteSets, TLC

(***************************************************************************)
(* Bounds of the model.                                                    *)
(***************************************************************************)
\* longest interleaved sample sequence enumerated exhaustively
MaxSamples == 3
\* longest of the periodic (two-valued) waveforms, which start at MinVizLen
MaxLong == 9

(***************************************************************************)
(* Generic helpers.                                                        *)
(***************************************************************************)
Ok(v) == [ok |-> TRUE, val |-> v]

Raise(e) == [ok |-> FALSE, err |-> e]

Range(s) == {s[i] : i \in DOMAIN s}

RECURSIVE SeqSum(_)
SeqSum(s) == IF Len(s) = 0 THEN 0 ELSE s[1] + SeqSum(Tail(s))

SetMax(S) == CHOOSE x \in S : \A y \in S : y <= x

SetMin(S) == CHOOSE x \in S : \A y \in S : x <= y

SeqsUpTo(S, n) == UNION {[1..k -> S] : k \in 0..n}

(***************************************************************************)
(* 16-bit integer arithmetic of numpy's int16 arrays: results wrap.        *)
(***************************************************************************)
ToInt16(x) == LET m == x % 65536 IN IF m >= 32768 THEN m - 65536 ELSE m

\* np.abs on an int16 array: abs(-32768) wraps back to -32768
AbsInt16(x) == ToInt16(IF x < 0 THEN -x ELSE x)

\* waveform ** 2 on an int16 array: the square wraps
SquareInt16(x) == ToInt16(x * x)

(***************************************************************************)
(* The WAV file.  A file is                                                *)
(*   [valid, nchannels, sampwidth, framerate, declared, data]              *)
(* where declared is the size in bytes the header of the data chunk gives, *)
(* and data the bytes the file holds after that header: fewer than         *)
(* declared in a truncated file.  PcmBytes is the PCM encoding of a        *)
(* sequence of interleaved samples: 16-bit samples are little-endian two's *)
(* complement, 8-bit samples one byte each.                                *)
(***************************************************************************)
PcmBytes(samples, sampwidth) ==
    IF sampwidth = 2
    THEN [j \in 1..(2 * Len(samples)) |->
            LET u == samples[(j + 1) \div 2] % 65536
            IN  IF j % 2 = 1 THEN u % 256 ELSE u \div 256]
    ELSE [j \in 1..Len(samples) |-> samples[j] % 256]

\* wave.open: fails for anything that is not a PCM WAV file
WaveOpen(f) == IF f.valid THEN Ok(f) ELSE Raise("wave.Error")

\* getnframes with the channel count left out of the frame size
GetNFramesPerSample(f) == f.declared \div f.sampwidth

\* Wave_read.getnframes: the size the data chunk's header declares over the
\* frame size
GetNFrames(f) == f.declared \div (f.nchannels * f.sampwidth)

\* the bytes of the data chunk a reader gets: not beyond the declared size,
\* not beyond the end of the file
ChunkBytes(f) == IF f.declared < Len(f.data) THEN f.declared ELSE Len(f.data)

\* Wave_read.readframes(n): the bytes of the first n frames, as far as the
\* chunk has them
ReadFrames(f, n) ==
    LET size == n * f.nchannels * f.sampwidth
    IN  SubSeq(f.data, 1, IF size < ChunkBytes(f) THEN size ELSE ChunkBytes(f))

\* np.frombuffer(raw, dtype=np.int16)
FromBufferInt16(raw) ==
    IF Len(raw) % 2 # 0
    THEN Raise("ValueError")
    ELSE Ok([i \in 1..(Len(raw) \div 2) |->
                ToInt16(raw[2 * i - 1] + 256 * raw[2 * i])])

\* audio_data[1::2], the right channel
RightChannel(audio_data) ==
    [i \in 1..(Len(audio_data) \div 2) |-> audio_data[2 * i]]

\* audio_data[0::2]
LeftChannel(audio_data) ==
    [i \in 1..((Len(audio_data) + 1) \div 2) |-> audio_data[2 * i - 1]]

\* a / b on Python ints
TrueDiv(a, b) ==
    IF b = 0 THEN Raise("ZeroDivisionError") ELSE Ok([num |-> a, den |-> b])

ChannelType(channels) == IF channels = 1 THEN "Mono" ELSE "Stereo"

\* every exception is re-raised as a plain Exception
get_wave_info(f) ==
    IF ~WaveOpen(f).ok THEN Raise("Exception")
    ELSE LET sample_rate == f.framerate
             total_samples == GetNFrames(f)
             duration == TrueDiv(total_samples, sample_rate)
         IN  IF ~duration.ok THEN Raise("Exception")
             ELSE Ok([sample_rate   |-> sample_rate,
                      total_samples |-> total_samples,
                      channels      |-> f.nchannels,
                      sample_width  |-> f.sampwidth,
                      duration      |-> duration.val,
                      channel_type  |-> ChannelType(f.nchannels)])

SelectChannel(audio_data, channels) ==
    IF channels = 1 THEN audio_data ELSE LeftChannel(audio_data)

load_wave_data(f) ==
    IF ~WaveOpen(f).ok THEN Raise("Exception")
    ELSE LET sample_rate == f.framerate
             total_samples == GetNFrames(f)
             channels == f.nchannels
             audio_data == FromBufferInt16(ReadFrames(f, total_samples))
             duration == TrueDiv(total_samples, sample_rate)
         IN  IF ~audio_data.ok \/ ~duration.ok THEN Raise("Exception")
             ELSE Ok([waveform    |-> SelectChannel(audio_data.val, channels),
                      sample_rate |-> sample_rate,
                      duration    |-> duration.val,
                      channels    |-> channels])

(***************************************************************************)
(* Level metrics (tools.py).                                               *)
(***************************************************************************)
\* 1 / 1e-6, the reference amplitude of every decibel formula
DbRefInv == 1000000

\* np.mean of an integer array, exactly; 0/0, the mean of an empty array,
\* is nan
Mean(s) == [num |-> SeqSum(s), den |-> Len(s)]

SqAmplitude(waveform) == [i \in DOMAIN waveform |-> SquareInt16(waveform[i])]

\* log10 of a mean m = num/den: nan for the nan 0/0, else finite for a
\* positive argument, -inf at zero, nan below zero
Log10Kind(m) ==
    IF m.den = 0 THEN "nan"
    ELSE IF m.num > 0 THEN "finite"
    ELSE IF m.num = 0 THEN "neginf" ELSE "nan"

\* 10 * log10(mean(waveform ** 2) / 1e-6), kept as the mean it is taken of
wave_to_db(waveform) ==
    LET m == Mean(SqAmplitude(waveform))
    IN  [kind |-> Log10Kind(m), scale |-> 10, power |-> 1, arg |-> m]

\* 20 * log10(sqrt(mean(waveform ** 2)) / 1e-6): the square root of a
\* negative mean is nan, and so is its logarithm
wave_to_db_rms(waveform) ==
    LET m == Mean(SqAmplitude(waveform))
    IN  [kind |-> Log10Kind(m), scale |-> 20, power |-> 2, arg |-> m]

\* floor(n / DbRefInv^power), without leaving 32-bit integers
DivByRef(n, power) ==
    IF power = 1 THEN n \div DbRefInv ELSE (n \div DbRefInv) \div DbRefInv

\* db > 0 for a level db = scale*log10(root(arg)/1e-6): the argument of the
\* logarithm exceeds 1, i.e. arg.num * DbRefInv^power > arg.den
DbPositive(db) ==
    /\ db.kind = "finite"
    /\ DivByRef(db.arg.den, db.power) < db.arg.num

AbsAll(waveform) == [i \in DOMAIN waveform |-> AbsInt16(waveform[i])]

NonZero(waveform) == SelectSeq(waveform, LAMBDA x : x # 0)

\* np.max / np.min: ValueError on an empty array
NpMax(a) == IF Len(a) = 0 THEN Raise("ValueError") ELSE Ok(SetMax(Range(a)))

NpMin(a) == IF Len(a) = 0 THEN Raise("ValueError") ELSE Ok(SetMin(Range(a)))

\* 20 * log10(amplitude / 1e-6) if amplitude > 0 else -inf
AmplitudeDb(amplitude) ==
    [kind |-> IF amplitude > 0 THEN "finite" ELSE "neginf", amp |-> amplitude]

\* min_db - max_db, the operands exchanged
DynamicRangeSwapped(max_db, min_db) ==
    IF min_db.kind = "neginf" THEN [kind |-> "zero"]
    ELSE IF max_db.kind = "neginf" THEN [kind |-> "neginf"]
    ELSE [kind |-> "ratio", num |-> min_db.amp, den |-> max_db.amp]

\* max_db - min_db if min_db != -inf else 0.  The difference of two finite
\* levels is 20*log10(max/min), kept as the pair; -inf minus a finite level
\* is -inf.
DynamicRange(max_db, min_db) ==
    IF min_db.kind = "neginf" THEN [kind |-> "zero"]
    ELSE IF max_db.kind = "neginf" THEN [kind |-> "neginf"]
    ELSE [kind |-> "ratio", num |-> max_db.amp, den |-> min_db.amp]

detect_db_range(waveform) ==
    LET max_amplitude == NpMax(AbsAll(waveform))
        min_amplitude == NpMin(AbsAll(NonZero(waveform)))
    IN  IF ~max_amplitude.ok \/ ~min_amplitude.ok THEN Raise("ValueError")
        ELSE LET max_db == AmplitudeDb(max_amplitude.val)
                 min_db == AmplitudeDb(min_amplitude.val)
             IN  Ok([max_db |-> max_db, min_db |-> min_db,
                     dynamic_range |-> DynamicRange(max_db, min_db)])

\* 10 < r for r = 20*log10(num/den): (num/den)^2 > 10
RangeAbove10(r) ==
    /\ r.kind = "ratio"
    /\ (r.num * r.num - 1) \div 10 >= r.den * r.den

\* 0 <= r: num/den >= 1
RangeAtLeast0(r) ==
    \/ r.kind = "zero"
    \/ r.kind = "ratio" /\ r.num >= r.den

\* r < 150: num/den < 10^7.5 = 31622776.6...; exact for every num below
\* 31622776, which covers all 16-bit amplitudes
RangeBelow150(r) ==
    \/ r.kind \in {"zero", "neginf"}
    \/ r.kind = "ratio" /\ r.num \div r.den < 31622776

analyze_audio_levels(waveform) ==
    LET max_amplitude == NpMax(AbsAll(waveform))
        min_amplitude == NpMin(AbsAll(waveform))
        db_range == detect_db_range(waveform)
    IN  IF ~max_amplitude.ok \/ ~min_amplitude.ok \/ ~db_range.ok
        THEN Raise("ValueError")
        ELSE Ok([max_amplitude  |-> max_amplitude.val,
                 min_amplitude  |-> min_amplitude.val,
                 mean_amplitude |-> Mean(AbsAll(waveform)),
                 avg_db         |-> wave_to_db(waveform),
                 rms_db         |-> wave_to_db_rms(waveform),
                 db_range       |-> db_range.val])

(***************************************************************************)
(* Harmonic detection (audio_processing.py).  np.fft.fft is a numerical    *)
(* library routine: the magnitudes |fft[k]| of the positive-frequency bins *)
(* k = 1..PosBins(n) enter as a given array, magnitude[k] for bin k, whose *)
(* frequency is k * sample_rate / n.                                       *)
(***************************************************************************)
\* the fraction max * 0.01 of find_peaks' height
HeightPercent == 1

\* number of bins with np.fft.fftfreq(n, 1/sample_rate) > 0
PosBins(n) == IF n = 0 THEN 0 ELSE (n - 1) \div 2

\* scipy.signal.find_peaks without conditions: the midpoint (rounded down)
\* of every plateau p..q that is strictly above both neighbours; the first
\* and the last element are never peaks.  In increasing order.
IsPlateauPeak(x, p, q) ==
    /\ 1 < p /\ p <= q /\ q < Len(x)
    /\ \A i \in p..q : x[i] = x[p]
    /\ x[p - 1] < x[p]
    /\ x[q + 1] < x[q]

LocalMaxima(x) ==
    {(p + q) \div 2 : <<p, q>> \in
        {pq \in (DOMAIN x) \X (DOMAIN x) : IsPlateauPeak(x, pq[1], pq[2])}}

\* height=np.max(magnitude) * 0.01: a peak is kept when it is at least that
HeightOk(m, max_magnitude) == 100 * m >= HeightPercent * max_magnitude

FindPeaks(magnitude, max_magnitude) ==
    {k \in LocalMaxima(magnitude) : HeightOk(magnitude[k], max_magnitude)}

\* np.argsort(peak_magnitudes)[::-1]: the orders of the peaks by
\* non-increasing magnitude.  The order of equal magnitudes is not fixed
\* by the default sort, so every such order is an outcome.
IsSortedDesc(order, magnitude) ==
    \A i \in 1..(Len(order) - 1) :
        magnitude[order[i]] >= magnitude[order[i + 1]]

SortedOrders(peaks, magnitude) ==
    {o \in [1..Cardinality(peaks) -> peaks] :
        /\ Range(o) = peaks
        /\ IsSortedDesc(o, magnitude)}

\* sorted_indices[:num_harmonics]
TopK(order, num_harmonics) ==
    SubSeq(order, 1, IF Len(order) < num_harmonics THEN Len(order)
                     ELSE num_harmonics)

\* one entry of the result: freqs[peak] = peak * sample_rate / n and
\* magnitude_db = 20 * log10(magnitude / max + 1e-10), kept as the pair
Harmonic(k, magnitude, max_magnitude, n, sample_rate) ==
    [frequency    |-> [num |-> k * sample_rate, den |-> n],
     magnitude_db |-> [num |-> magnitude[k], den |-> max_magnitude]]

\* The outcomes of detect_harmonics for a waveform of n samples whose
\* positive-frequency magnitudes are `magnitude`.
detect_harmonics(magnitude, n, sample_rate, num_harmonics) ==
    IF n = 0 THEN {Raise("ValueError")}            \* np.fft.fft of nothing
    ELSE IF sample_rate = 0 THEN {Raise("ZeroDivisionError")}
    ELSE LET max_magnitude == NpMax(magnitude)
         IN  IF ~max_magnitude.ok THEN {Raise("ValueError")}
             ELSE LET peaks == FindPeaks(magnitude, max_magnitude.val)
                  IN  IF peaks = {} THEN {Ok(<<>>)}
                      ELSE {Ok([i \in DOMAIN TopK(o, num_harmonics) |->
                                  Harmonic(TopK(o, num_harmonics)[i], magnitude,
                                           max_magnitude.val, n, sample_rate)]) :
                            o \in SortedOrders(peaks, magnitude)}

(***************************************************************************)
(* The six dashboard figures (plotly_viz.py).  A figure is kept by its     *)
(* kind; what decides whether a plot can be built is the waveform length.  *)
(***************************************************************************)
\* min(1024, len(waveform) // d)
NPerSeg(n, d) == IF n \div d < 1024 THEN n \div d ELSE 1024

create_waveform_plot(n, sample_rate) == Ok("waveform")

\* np.fft.fft of nothing, 1/sample_rate, and magnitude.max() of the
\* positive-frequency bins, of which there are none for n <= 2
create_frequency_spectrum_plot(n, sample_rate) ==
    IF n = 0 THEN Raise("ValueError")
    ELSE IF sample_rate = 0 THEN Raise("ZeroDivisionError")
    ELSE IF PosBins(n) = 0 THEN Raise("ValueError")
    ELSE Ok("spectrum")

\* signal.spectrogram: an empty input gives empty arrays at once; else
\* nperseg must be a positive integer, and the frequencies need 1/fs
create_spectrogram_plot(n, sample_rate) ==
    IF n = 0 THEN Ok("spectrogram")
    ELSE IF NPerSeg(n, 8) < 1 THEN Raise("ValueError")
    ELSE IF sample_rate = 0 THEN Raise("ZeroDivisionError")
    ELSE Ok("spectrogram")

\* signal.welch: as signal.spectrogram
create_psd_plot(n, sample_rate) ==
    IF n = 0 THEN Ok("psd")
    ELSE IF NPerSeg(n, 4) < 1 THEN Raise("ValueError")
    ELSE IF sample_rate = 0 THEN Raise("ZeroDivisionError")
    ELSE Ok("psd")

create_phase_plot(n, sample_rate) ==
    IF n = 0 THEN Raise("ValueError")
    ELSE IF sample_rate = 0 THEN Raise("ZeroDivisionError")
    ELSE Ok("phase")

create_histogram_plot(n) == Ok("histogram")

FigureKeys ==
    <<"waveform", "spectrum", "spectrogram", "psd", "phase", "histogram">>

FigureFor(key, n, sample_rate) ==
    CASE key = "waveform"    -> create_waveform_plot(n, sample_rate)
      [] key = "spectrum"    -> create_frequency_spectrum_plot(n, sample_rate)
      [] key = "spectrogram" -> create_spectrogram_plot(n, sample_rate)
      [] key = "psd"         -> create_psd_plot(n, sample_rate)
      [] key = "phase"       -> create_phase_plot(n, sample_rate)
      [] key = "histogram"   -> create_histogram_plot(n)

\* the dict display is evaluated entry by entry; the first exception ends it
\* (n is len(waveform))
create_all_visualizations(n, sample_rate) ==
    LET failing == {i \in DOMAIN FigureKeys :
                       ~FigureFor(FigureKeys[i], n, sample_rate).ok}
    IN  IF failing # {}
        THEN FigureFor(FigureKeys[SetMin(failing)], n, sample_rate)
        ELSE Ok([k \in Range(FigureKeys) |->
                    FigureFor(k, n, sample_rate).val])

\* the keys render_visualizations subscripts
RenderedKeys ==
    {"waveform", "spectrum", "spectrogram", "psd", "phase", "histogram"}

(***************************************************************************)
(* One analysis run: the CLI's perform_complete_analysis or the            *)
(* dashboard's analyze_audio, a step at a time.                            *)
(***************************************************************************)
VARIABLES
    file,          \* the WAV file analysed
    pcm,           \* the interleaved samples the file's data chunk encodes
    mode,          \* "cli" (perform_complete_analysis) or "dashboard"
    show_plots,    \* perform_complete_analysis' parameters
    save_figures,
    pc,            \* the step the run is at
    file_info, wave_data, audio_levels, harmonics, figures,  \* the locals
    steps,         \* the calls made so far, in order
    outcome,       \* "running", "returned" or "raised"
    result,        \* the value returned
    printed,       \* the error message of the except clause was printed
    plot_calls,    \* calls into the matplotlib layer, with their save_path
    fs_dirs,       \* directories created
    fs_files,      \* figure files written
    tmp_exists,    \* the dashboard's temporary WAV file exists
    stdout_ok,     \* sys.stdout can encode the messages printed
    ui,            \* main.py: what the user enters at the options menu
    options        \* main.py: the dict get_analysis_options returned

\* One call of detect_harmonics on its own.
VARIABLES
    hm_n,              \* len(waveform)
    hm_sample_rate,
    hm_num_harmonics,
    hm_magnitude,      \* magnitude after the positive_mask
    hm_result,         \* what the call returned or raised
    hm_pc              \* "fft", "find_peaks" or "done"

\* The dashboard: the browser session and the runs of main().
VARIABLES
    session,       \* st.session_state
    uploaded,      \* the file in the uploader
    slider,        \* the FFT window-size slider
    clicked,       \* the Analyze button was pressed for the coming run
    pending,       \* a run of the script is due
    screen,        \* what the current (else the last) run of main() displayed
    calls,         \* the calls of analyze_audio that run made
    session0,      \* st.session_state as that run found it
    widgets,       \* the widgets the browser shows
    fast_reruns,   \* Streamlit's runner.fastReruns option
    main_pc,       \* where the run of main() is, "idle" between runs
    stop,          \* an event has arrived since the run started
    fft_window,    \* render_sidebar's local
    uploaded_file, \* main's local
    results,       \* main's local
    stored         \* how many of the assignments 321-329 the run has made

\* One call of a filter or of normalize_waveform on its own.
VARIABLES
    dsp_fn,            \* the function called
    dsp_waveform,
    dsp_sample_rate,
    dsp_low,           \* cutoff_freq, or low_freq of the band-pass filter
    dsp_high,          \* high_freq of the band-pass filter
    dsp_order,
    dsp_result,        \* what the call returned or raised
    dsp_pc             \* "call" or "done"

runVars == <<file, pcm, mode, show_plots, save_figures, pc, file_info,
             wave_data, audio_levels, harmonics, figures, steps, outcome,
             result, printed, plot_calls, fs_dirs, fs_files, tmp_exists,
             stdout_ok, ui, options>>

hmVars == <<hm_n, hm_sample_rate, hm_num_harmonics, hm_magnitude, hm_result,
            hm_pc>>

dashVars == <<session, uploaded, slider, clicked, pending, screen, calls,
              session0, widgets, fast_reruns, main_pc, stop, fft_window,
              uploaded_file, results, stored>>

dspVars == <<dsp_fn, dsp_waveform, dsp_sample_rate, dsp_low, dsp_high,
             dsp_order, dsp_result, dsp_pc>>

vars == <<runVars, hmVars, dashVars, dspVars>>

\* what a step of a run leaves alone: its inputs and the other two parts
inputs == <<file, pcm, mode, show_plots, save_figures, stdout_ok, ui,
            options, hmVars, dashVars, dspVars>>

NoneVal == [none |-> TRUE]

\* the parts of the state a specification does not use stay as they are
RunIdle ==
    /\ file = NoneVal /\ pcm = <<>> /\ mode = "none"
    /\ show_plots = FALSE /\ save_figures = FALSE
    /\ pc = "done"
    /\ file_info = NoneVal /\ wave_data = NoneVal /\ audio_levels = NoneVal
    /\ harmonics = NoneVal /\ figures = NoneVal
    /\ steps = <<>> /\ outcome = "none" /\ result = NoneVal
    /\ printed = FALSE /\ plot_calls = <<>>
    /\ fs_dirs = {} /\ fs_files = {} /\ tmp_exists = FALSE
    /\ stdout_ok = TRUE /\ ui = NoneVal /\ options = NoneVal

HmIdle ==
    /\ hm_n = 0 /\ hm_sample_rate = 0 /\ hm_num_harmonics = 0
    /\ hm_magnitude = <<>> /\ hm_result = NoneVal /\ hm_pc = "done"

DashIdle ==
    /\ session = <<>> /\ uploaded = NoneVal /\ slider = 0
    /\ clicked = FALSE /\ pending = FALSE /\ screen = {} /\ calls = <<>>
    /\ session0 = <<>> /\ widgets = {} /\ fast_reruns = FALSE
    /\ main_pc = "idle" /\ stop = FALSE /\ fft_window = NoneVal
    /\ uploaded_file = NoneVal /\ results = NoneVal /\ stored = 0

DspIdle ==
    /\ dsp_fn = "none" /\ dsp_waveform = <<>> /\ dsp_sample_rate = 0
    /\ dsp_low = 0 /\ dsp_high = 0 /\ dsp_order = 0
    /\ dsp_result = NoneVal /\ dsp_pc = "done"

\* num_harmonics=10
NumHarmonicsDefault == 10

\* sample values: silence, the smallest steps, a square that wraps to a
\* negative number (200), one that wraps to 0 (256), and the int16 minimum
SampleValues == {-32768, 0, 1, 4, 200, 256}

LongValues == {0, 1, 4}

Channels == {1, 2, 3}

Rates == {8000, 44100}

\* magnitudes of a spectrum: 2 is exactly 1% of 200, 1 is below it
MagValues == {0, 1, 2, 200}

Periodic(n, a, b) == [i \in 1..n |-> IF i % 2 = 1 THEN a ELSE b]

PcmInputs ==
    SeqsUpTo(SampleValues, MaxSamples)
    \cup {Periodic(n, a, b) : n \in (MaxSamples + 1)..MaxLong,
                              a \in LongValues, b \in LongValues}

\* the file a writer makes of the samples: the header declares the bytes
\* that follow
WavFile(samples, nchannels, sampwidth, framerate) ==
    [valid |-> TRUE, nchannels |-> nchannels, sampwidth |-> sampwidth,
     framerate |-> framerate,
     declared |-> Len(PcmBytes(samples, sampwidth)),
     data |-> PcmBytes(samples, sampwidth)]

NotAWavFile ==
    [valid |-> FALSE, nchannels |-> 1, sampwidth |-> 2, framerate |-> 8000,
     declared |-> 0, data |-> <<>>]

\* the file with another size in the header of its data chunk
Declaring(f, size) == [f EXCEPT !.declared = size]

\* the file cut off one byte before its end
CutByte(f) == [f EXCEPT !.data = SubSeq(f.data, 1, Len(f.data) - 1)]

\* sample rates of the files whose header and data differ: at 50 Hz one
\* frame lasts 0.02 s, at 100 Hz exactly 0.01 s
LowRates == {50, 100, 8000}

\* <<file, samples>>, the samples being those the file holds.  16-bit files
\* of every input, 8-bit files and files with a sample rate of 0 of the
\* short inputs, a file that is no WAV, and 16-bit files whose header
\* declares more or fewer bytes than the file holds, one of them ending
\* inside a sample
FileInputs ==
    {<<WavFile(s, c, 2, r), s>> : s \in PcmInputs, c \in Channels, r \in Rates}
    \cup {<<WavFile(s, c, 1, 8000), s>> :
            s \in SeqsUpTo(LongValues, MaxSamples), c \in Channels}
    \cup {<<WavFile(s, c, 2, 0), s>> :
            s \in SeqsUpTo(LongValues, 1), c \in Channels}
    \cup {<<NotAWavFile, <<>> >>}
    \cup UNION {{<<Declaring(WavFile(s, c, 2, r), 2 * k), s>> :
                    k \in 0..(Len(s) + 2)} :
                s \in SeqsUpTo(LongValues, MaxSamples), c \in Channels,
                r \in LowRates}
    \cup {<<CutByte(WavFile(s, c, 2, 8000)), SubSeq(s, 1, Len(s) - 1)>> :
            s \in SeqsUpTo(LongValues, MaxSamples) \ {<<>>}, c \in Channels}

Spectra(n) == [1..PosBins(n) -> MagValues]

\* the dashboard's order with the harmonics detected before the levels
NextStepHarmonicsFirst(m, step, show, save) ==
    IF m = "cli"
    THEN CASE step = "get_wave_info"        -> "load_wave_data"
           [] step = "load_wave_data"       -> "analyze_audio_levels"
           [] step = "analyze_audio_levels" -> "print_results"
           [] step = "print_results"        ->
                 IF show THEN (IF save THEN "makedirs" ELSE "plot_waveform")
                 ELSE "return"
           [] step = "makedirs"             -> "plot_waveform"
           [] step = "plot_waveform"        -> "plot_spectrogram"
           [] step = "plot_spectrogram"     -> "return"
    ELSE CASE step = "convert_audio_to_wav" -> "get_wave_info"
           [] step = "get_wave_info"        -> "load_wave_data"
           [] step = "load_wave_data"       -> "detect_harmonics"
           [] step = "detect_harmonics"     -> "analyze_audio_levels"
           [] step = "analyze_audio_levels" -> "create_all_visualizations"
           [] step = "create_all_visualizations" -> "return"

\* The step after `step` of a run that has not failed.
NextStep(m, step, show, save) ==
    IF m = "cli"
    THEN CASE step = "get_wave_info"        -> "load_wave_data"
           [] step = "load_wave_data"       -> "analyze_audio_levels"
           [] step = "analyze_audio_levels" -> "print_results"
           [] step = "print_results"        ->
                 IF show THEN (IF save THEN "makedirs" ELSE "plot_waveform")
                 ELSE "return"
           [] step = "makedirs"             -> "plot_waveform"
           [] step = "plot_waveform"        -> "plot_spectrogram"
           [] step = "plot_spectrogram"     -> "return"
    ELSE CASE step = "convert_audio_to_wav" -> "get_wave_info"
           [] step = "get_wave_info"        -> "load_wave_data"
           [] step = "load_wave_data"       -> "analyze_audio_levels"
           [] step = "analyze_audio_levels" -> "detect_harmonics"
           [] step = "detect_harmonics"     -> "create_all_visualizations"
           [] step = "create_all_visualizations" -> "return"

FirstStep(m) == IF m = "cli" THEN "get_wave_info" ELSE "convert_audio_to_wav"

\* What an exception raised inside the try block leads to:
\* perform_complete_analysis prints it and returns None, unless the print
\* of the message raises in its turn (UnicodeEncodeError on a stdout that
\* cannot encode it), which leaves the function; analyze_audio removes the
\* temporary file and raises the exception again.
ExceptClause(m, can_print) ==
    IF m = "cli"
    THEN IF can_print
         THEN [outcome |-> "returned", printed |-> TRUE, unlink |-> FALSE]
         ELSE [outcome |-> "raised", printed |-> FALSE, unlink |-> FALSE]
    ELSE [outcome |-> "raised", printed |-> FALSE, unlink |-> TRUE]

\* the dict main.py gets from the options menu
options_list ==
    <<[name |-> "Standard analysis (waveform + spectrogram)",
       show_plots |-> TRUE, save_figures |-> FALSE],
      [name |-> "Save figures to files",
       show_plots |-> TRUE, save_figures |-> TRUE],
      [name |-> "Analysis only (no plots)",
       show_plots |-> FALSE, save_figures |-> FALSE]>>

\* without the keyboard module: input() until the choice is "", 1, 2 or 3;
\* the end of the input raises EOFError
RECURSIVE ReadChoice(_)
ReadChoice(choices) ==
    IF choices = <<>> THEN Raise("EOFError")
    ELSE CASE Head(choices) \in {"", "1"} -> Ok(options_list[1])
           [] Head(choices) = "2"         -> Ok(options_list[2])
           [] Head(choices) = "3"         -> Ok(options_list[3])
           [] OTHER                       -> ReadChoice(Tail(choices))

\* with the keyboard module: the arrows move selected_index (counted from
\* 0), enter returns the selected option, esc and Ctrl-C the first one;
\* with no further event the menu waits
RECURSIVE ReadEvent(_, _)
ReadEvent(events, selected_index) ==
    IF events = <<>> THEN Raise("waiting")
    ELSE CASE Head(events) = "up" ->
                ReadEvent(Tail(events),
                          (selected_index - 1) % Len(options_list))
           [] Head(events) = "down" ->
                ReadEvent(Tail(events),
                          (selected_index + 1) % Len(options_list))
           [] Head(events) = "enter" -> Ok(options_list[selected_index + 1])
           [] Head(events) \in {"esc", "ctrl_c"} -> Ok(options_list[1])
           [] OTHER -> ReadEvent(Tail(events), selected_index)

get_analysis_options(u) ==
    IF u.keyboard_available THEN ReadEvent(u.events, 0)
    ELSE ReadChoice(u.events)

MaxEvents == 2

KeyNames == {"up", "down", "enter", "esc", "ctrl_c", "q"}

Choices == {"", "1", "2", "3", "4"}

\* what the user can enter so that the menu returns
UiInputs ==
    {u \in {[keyboard_available |-> TRUE, events |-> e] :
                e \in SeqsUpTo(KeyNames, MaxEvents)}
            \cup {[keyboard_available |-> FALSE, events |-> e] :
                e \in SeqsUpTo(Choices, MaxEvents)} :
        get_analysis_options(u).ok}

\* the files main.py is run on
MainFileInputs == {fs \in FileInputs : Len(fs[2]) <= 1}

\* A run starts with a call of perform_complete_analysis with any two
\* flags, with main.py at its options menu, or with a call of the
\* dashboard's analyze_audio.
Init ==
    /\ \/ /\ \E fs \in FileInputs : file = fs[1] /\ pcm = fs[2]
          /\ \/ mode = "cli" /\ show_plots \in BOOLEAN
                /\ save_figures \in BOOLEAN /\ stdout_ok \in BOOLEAN
             \/ mode = "dashboard" /\ show_plots = TRUE
                /\ save_figures = FALSE /\ stdout_ok = TRUE
          /\ pc = FirstStep(mode)
          /\ ui = NoneVal
       \/ /\ \E fs \in MainFileInputs : file = fs[1] /\ pcm = fs[2]
          /\ mode = "cli" /\ show_plots = FALSE /\ save_figures = FALSE
          /\ pc = "get_analysis_options"
          \* main.py has printed its welcome line, which stdout could encode
          /\ stdout_ok = TRUE
          /\ ui \in UiInputs
    /\ options = NoneVal
    /\ file_info = NoneVal /\ wave_data = NoneVal /\ audio_levels = NoneVal
    /\ harmonics = NoneVal /\ figures = NoneVal
    /\ steps = <<>>
    /\ outcome = "running"
    /\ result = NoneVal
    /\ printed = FALSE
    /\ plot_calls = <<>>
    /\ fs_dirs = {}
    /\ fs_files = {}
    /\ tmp_exists = FALSE
    /\ HmIdle
    /\ DashIdle
    /\ DspIdle

\* an exception reaches the except clause
Excepts ==
    /\ pc' = "done"
    /\ outcome' = ExceptClause(mode, stdout_ok).outcome
    /\ printed' = ExceptClause(mode, stdout_ok).printed
    /\ tmp_exists' = (tmp_exists /\ ~ExceptClause(mode, stdout_ok).unlink)
    /\ result' = NoneVal

\* the step `step` is called and raises inside the try block
Fails(step) ==
    /\ steps' = Append(steps, step)
    /\ Excepts

\* the step `step` is called and completes
Completes(step) ==
    /\ steps' = Append(steps, step)
    /\ pc' = NextStep(mode, step, show_plots, save_figures)
    /\ UNCHANGED <<outcome, printed, result>>

\* main.py: options = get_analysis_options(), then the call of
\* perform_complete_analysis with the flags of that dict
GetAnalysisOptions ==
    /\ pc = "get_analysis_options"
    /\ LET r == get_analysis_options(ui)
       IN  /\ r.ok
           /\ options' = r.val
           /\ show_plots' = r.val.show_plots
           /\ save_figures' = r.val.save_figures
    /\ pc' = FirstStep(mode)
    /\ UNCHANGED <<file, pcm, mode, stdout_ok, ui, hmVars, dashVars, dspVars,
                   file_info,
                   wave_data, audio_levels, harmonics, figures, steps,
                   outcome, result, printed, plot_calls, fs_dirs, fs_files,
                   tmp_exists>>

\* convert_audio_to_wav writes the upload to a temporary file; it is called
\* before the try block.  When it fails, a temporary file it has created
\* stays (the write of the upload is outside its try block) or not.
ConvertAudioToWav ==
    /\ pc = "convert_audio_to_wav"
    /\ \E ok \in BOOLEAN :
        IF ok
        THEN Completes("convert_audio_to_wav") /\ tmp_exists' = TRUE
        ELSE /\ steps' = Append(steps, "convert_audio_to_wav")
             /\ pc' = "done"
             /\ outcome' = "raised"
             /\ tmp_exists' \in BOOLEAN
             /\ UNCHANGED <<printed, result>>
    /\ UNCHANGED <<inputs, file_info, wave_data, audio_levels, harmonics,
                   figures, plot_calls, fs_dirs, fs_files>>

GetWaveInfo ==
    /\ pc = "get_wave_info"
    /\ LET r == get_wave_info(file)
       IN  IF r.ok
           THEN Completes("get_wave_info") /\ file_info' = r.val
                /\ UNCHANGED tmp_exists
           ELSE Fails("get_wave_info") /\ UNCHANGED file_info
    /\ UNCHANGED <<inputs, wave_data, audio_levels, harmonics, figures,
                   plot_calls, fs_dirs, fs_files>>

LoadWaveData ==
    /\ pc = "load_wave_data"
    /\ LET r == load_wave_data(file)
       IN  IF r.ok
           THEN Completes("load_wave_data") /\ wave_data' = r.val
                /\ UNCHANGED tmp_exists
           ELSE Fails("load_wave_data") /\ UNCHANGED wave_data
    /\ UNCHANGED <<inputs, file_info, audio_levels, harmonics, figures,
                   plot_calls, fs_dirs, fs_files>>

AnalyzeAudioLevels ==
    /\ pc = "analyze_audio_levels"
    /\ LET r == analyze_audio_levels(wave_data.waveform)
       IN  IF r.ok
           THEN Completes("analyze_audio_levels") /\ audio_levels' = r.val
                /\ UNCHANGED tmp_exists
           ELSE Fails("analyze_audio_levels") /\ UNCHANGED audio_levels
    /\ UNCHANGED <<inputs, file_info, wave_data, harmonics, figures,
                   plot_calls, fs_dirs, fs_files>>

\* detect_harmonics(waveform, sample_rate): the spectrum is the library's
DetectHarmonics ==
    /\ pc = "detect_harmonics"
    /\ \E magnitude \in Spectra(Len(wave_data.waveform)) :
       \E r \in detect_harmonics(magnitude, Len(wave_data.waveform),
                                 wave_data.sample_rate, NumHarmonicsDefault) :
           IF r.ok
           THEN Completes("detect_harmonics") /\ harmonics' = [list |-> r.val]
                /\ UNCHANGED tmp_exists
           ELSE Fails("detect_harmonics") /\ UNCHANGED harmonics
    /\ UNCHANGED <<inputs, file_info, wave_data, audio_levels, figures,
                   plot_calls, fs_dirs, fs_files>>

CreateAllVisualizations ==
    /\ pc = "create_all_visualizations"
    /\ LET r == create_all_visualizations(Len(wave_data.waveform),
                                          wave_data.sample_rate)
       IN  IF r.ok
           THEN Completes("create_all_visualizations") /\ figures' = r.val
                /\ UNCHANGED tmp_exists
           ELSE Fails("create_all_visualizations") /\ UNCHANGED figures
    /\ UNCHANGED <<inputs, file_info, wave_data, audio_levels, harmonics,
                   plot_calls, fs_dirs, fs_files>>

\* the prints of the results (lines 110-125), inside the try block
PrintResults ==
    /\ pc = "print_results"
    /\ IF stdout_ok
       THEN /\ pc' = NextStep(mode, "print_results", show_plots, save_figures)
            /\ UNCHANGED <<outcome, printed, result, tmp_exists>>
       ELSE Excepts
    /\ UNCHANGED <<inputs, file_info, wave_data, audio_levels, harmonics,
                   figures, steps, plot_calls, fs_dirs, fs_files>>

FiguresDir == "figures"

\* paths under the figures directory whatever save_figures is
SavePathAlways(kind, save) == [dir |-> FiguresDir, name |-> kind]

\* waveform_path / spectrogram_path
SavePath(kind, save) ==
    IF save THEN [dir |-> FiguresDir, name |-> kind] ELSE NoneVal

\* os.makedirs(figures_dir, exist_ok=True); it can fail (permissions, a
\* file of that name)
MakeDirs ==
    /\ pc = "makedirs"
    /\ \E ok \in BOOLEAN :
        IF ok
        THEN Completes("makedirs") /\ fs_dirs' = fs_dirs \cup {FiguresDir}
             /\ UNCHANGED tmp_exists
        ELSE Fails("makedirs") /\ UNCHANGED fs_dirs
    /\ UNCHANGED <<inputs, file_info, wave_data, audio_levels, harmonics,
                   figures, plot_calls, fs_files>>

\* plot_waveform / plot_spectrogram up to plt.show(): the figure is drawn,
\* and saved when a save_path is given; drawing and saving can fail in the
\* environment, and a failed savefig may have left its file
Plot(step, kind) ==
    /\ LET save_path == SavePath(kind, save_figures)
       IN  /\ plot_calls' = Append(plot_calls,
                                   [fn |-> step, save_path |-> save_path])
           /\ \E ok \in BOOLEAN :
                IF ok
                THEN /\ pc' = "plt_show"
                     /\ fs_files' = IF save_path # NoneVal
                                    THEN fs_files \cup {save_path}
                                    ELSE fs_files
                     /\ UNCHANGED <<steps, outcome, printed, result,
                                    tmp_exists>>
                ELSE /\ Fails(step)
                     /\ fs_files' \in
                          {fs_files} \cup
                          (IF save_path # NoneVal
                           THEN {fs_files \cup {save_path}} ELSE {})
    /\ UNCHANGED <<inputs, file_info, wave_data, audio_levels, harmonics,
                   figures, fs_dirs>>

PlotWaveform ==
    /\ pc = "plot_waveform"
    /\ Plot("plot_waveform", "waveform")

PlotSpectrogram ==
    /\ pc = "plot_spectrogram"
    /\ Plot("plot_spectrogram", "spectrogram")

\* plt.show() waits until the window is closed and the plot function
\* returns; it can raise, and a Ctrl-C during the wait is a
\* KeyboardInterrupt, which `except Exception` does not catch
PltShow ==
    /\ pc = "plt_show"
    /\ LET step == plot_calls[Len(plot_calls)].fn
       IN  \E end \in {"closed", "raises", "interrupted"} :
              CASE end = "closed" -> Completes(step) /\ UNCHANGED tmp_exists
                [] end = "raises" -> Fails(step)
                [] end = "interrupted" ->
                      /\ steps' = Append(steps, step)
                      /\ pc' = "done"
                      /\ outcome' = "raised"
                      /\ result' = NoneVal
                      /\ UNCHANGED <<printed, tmp_exists>>
    /\ UNCHANGED <<inputs, file_info, wave_data, audio_levels, harmonics,
                   figures, plot_calls, fs_dirs, fs_files>>

\* the dict each run returns
ReturnValue(m) ==
    IF m = "cli"
    THEN [file_info |-> file_info, wave_data |-> wave_data,
          audio_levels |-> audio_levels]
    ELSE [file_info |-> file_info, audio_levels |-> audio_levels,
          figures |-> figures, waveform |-> wave_data.waveform,
          sample_rate |-> wave_data.sample_rate,
          duration |-> wave_data.duration, harmonics |-> harmonics.list,
          wav_path |-> "tmp_path"]

Return ==
    /\ pc = "return"
    /\ pc' = "done"
    /\ outcome' = "returned"
    /\ result' = ReturnValue(mode)
    /\ UNCHANGED <<inputs, file_info, wave_data, audio_levels, harmonics,
                   figures, steps, printed, plot_calls, fs_dirs, fs_files,
                   tmp_exists>>

Next ==
    \/ GetAnalysisOptions
    \/ ConvertAudioToWav
    \/ GetWaveInfo
    \/ LoadWaveData
    \/ AnalyzeAudioLevels
    \/ PrintResults
    \/ DetectHarmonics
    \/ CreateAllVisualizations
    \/ MakeDirs
    \/ PlotWaveform
    \/ PlotSpectrogram
    \/ PltShow
    \/ Return

Spec == Init /\ [][Next]_vars

(***************************************************************************)
(* Properties of one analysis run.                                         *)
(***************************************************************************)
Last(s) == s[Len(s)]

IsPrefix(s, t) == Len(s) <= Len(t) /\ SubSeq(t, 1, Len(s)) = s

\* C1: perform_complete_analysis never propagates an exception.  A CLI run
\* never ends raised; when it has ended it has returned, either None with
\* the error printed, which happens only if reading the info, loading,
\* computing the levels or plotting failed, or a dict with exactly the keys
\* file_info, wave_data and audio_levels, which happens only if none failed.
C1_NeverPropagates ==
    mode = "cli" =>
        /\ outcome # "raised"
        /\ pc = "done" =>
            /\ outcome = "returned"
            /\ \/ /\ result = NoneVal
                  /\ printed
                  /\ \/ ~get_wave_info(file).ok
                     \/ ~load_wave_data(file).ok
                     \/ ~analyze_audio_levels(wave_data.waveform).ok
                     \/ Last(steps) \in {"makedirs", "plot_waveform",
                                         "plot_spectrogram"}
               \/ /\ DOMAIN result = {"file_info", "wave_data", "audio_levels"}
                  /\ ~printed
                  /\ result.file_info = get_wave_info(file).val
                  /\ result.wave_data = load_wave_data(file).val
                  /\ result.audio_levels =
                        analyze_audio_levels(result.wave_data.waveform).val

\* The pipeline stage a call belongs to; file conversion and directory
\* creation belong to none.
StageOf(step) ==
    CASE step \in {"get_wave_info", "load_wave_data"} -> "load"
      [] step = "analyze_audio_levels" -> "levels"
      [] step = "detect_harmonics" -> "harmonics"
      [] step \in {"apply_lowpass_filter", "apply_highpass_filter",
                   "apply_bandpass_filter"} -> "filter"
      [] step \in {"plot_waveform", "plot_spectrogram",
                   "create_all_visualizations"} -> "plot"
      [] OTHER -> "none"

\* the stages of a sequence of calls, each run of one stage counted once
RECURSIVE Stages(_)
Stages(s) ==
    IF Len(s) = 0 THEN <<>>
    ELSE LET rest == Stages(SubSeq(s, 1, Len(s) - 1))
             st == StageOf(Last(s))
         IN  IF st = "none" \/ (Len(rest) > 0 /\ Last(rest) = st) THEN rest
             ELSE Append(rest, st)

Completed == outcome = "returned" /\ result # NoneVal

\* the stages of a completed run of each kind, as the code orders them
StagesOfRun(m, show) ==
    IF m = "dashboard" THEN <<"load", "levels", "harmonics", "plot">>
    ELSE IF show THEN <<"load", "levels", "plot">>
    ELSE <<"load", "levels">>

\* C2 as stated: every completed run, CLI or dashboard, went through load,
\* levels, harmonics, an optional filter, and plotting, in that order.
C2_Original ==
    Completed =>
        Stages(steps) \in {<<"load", "levels", "harmonics", "plot">>,
                           <<"load", "levels", "harmonics", "filter", "plot">>}

\* C2 (amended): a dashboard run goes through load, levels, harmonics and
\* plotting in this order; a CLI run goes through load and levels and then
\* plotting only if show_plots, and never detects harmonics; no run has a
\* filtering stage; at every moment the stages so far are a prefix of that
\* order, and a completed run has gone through all of it.
C2_StageOrder ==
    /\ IsPrefix(Stages(steps), StagesOfRun(mode, show_plots))
    /\ Completed => Stages(steps) = StagesOfRun(mode, show_plots)

\* a completed dashboard run
C2_Witness ==
    /\ mode = "dashboard" /\ Completed
    /\ Stages(steps) = <<"load", "levels", "harmonics", "plot">>

\* the waveform the samples pcm define: the first sample of every frame
FirstOfFrames(samples, nchannels) ==
    [i \in 1..(Len(samples) \div nchannels) |-> samples[nchannels * (i - 1) + 1]]

\* the frames the header declares, and the file holds them all and
\* nothing else
HoldsDeclaredFrames(f) ==
    /\ f.declared = Len(f.data)
    /\ f.declared % (f.nchannels * f.sampwidth) = 0

\* the interleaved sample data of a 16-bit file: the samples of the frames
\* the header declares, as far as the file holds them
Interleaved ==
    LET n == file.nchannels * (file.declared \div (file.nchannels * 2))
    IN  SubSeq(pcm, 1, IF n < Len(pcm) THEN n ELSE Len(pcm))

\* C3 as stated: for a mono 16-bit file load_wave_data returns all samples
\* in order, for a stereo 16-bit file the left channel, and the waveform has
\* exactly one element per frame of the file.
C3_Original ==
    (wave_data # NoneVal /\ file.sampwidth = 2 /\ file.nchannels \in {1, 2}) =>
        /\ file.nchannels = 1 => wave_data.waveform = Interleaved
        /\ file.nchannels = 2 =>
              \A i \in DOMAIN wave_data.waveform :
                  wave_data.waveform[i] = Interleaved[2 * (i - 1) + 1]
        /\ Len(wave_data.waveform) = file.declared \div (file.nchannels * 2)

\* C3 (amended): for a mono 16-bit file load_wave_data returns the samples
\* of the declared frames the file holds, in order, for a stereo 16-bit file
\* every second one of them from the first on (the left channel).  The
\* waveform has one element per frame when the file holds the frames its
\* header declares; in any case it has one element per left-channel sample
\* read, at most as many as frames are declared, and fewer in a truncated
\* mono file; the duration is that of the declared frames.
C3_LeftChannel ==
    (wave_data # NoneVal /\ file.sampwidth = 2 /\ file.nchannels \in {1, 2}) =>
        /\ file.nchannels = 1 => wave_data.waveform = Interleaved
        /\ file.nchannels = 2 =>
              /\ Len(wave_data.waveform) = (Len(Interleaved) + 1) \div 2
              /\ \A i \in DOMAIN wave_data.waveform :
                    wave_data.waveform[i] = Interleaved[2 * (i - 1) + 1]
        /\ HoldsDeclaredFrames(file) =>
              /\ Interleaved = pcm
              /\ Len(wave_data.waveform) = Len(pcm) \div file.nchannels
              /\ wave_data.waveform = FirstOfFrames(pcm, file.nchannels)
        /\ Len(wave_data.waveform) <= file.declared \div (file.nchannels * 2)
        /\ (file.nchannels = 1 /\ Len(file.data) < file.declared) =>
              Len(wave_data.waveform) < file.declared \div 2
        /\ wave_data.duration =
              [num |-> file.declared \div (file.nchannels * 2),
               den |-> file.framerate]

\* a loaded stereo file of two declared frames that ends after the left
\* sample of the second
C3_Witness ==
    /\ wave_data # NoneVal /\ file.sampwidth = 2 /\ file.nchannels = 2
    /\ file.declared = 8 /\ Len(pcm) = 3
    /\ pcm[1] # pcm[2]
    /\ wave_data.waveform = <<pcm[1], pcm[3]>>

\* A file of which the reference reader gets whole frames only.
WellFormed(f) ==
    f.valid /\ (ChunkBytes(f) \div f.sampwidth) % f.nchannels = 0

\* scipy.io.wavfile.read as verify_analysis uses it: the rate, and an array
\* of the samples it finds, with one row per frame and, unless mono, one
\* column per channel
WavfileRead(f) ==
    [rate |-> f.framerate,
     shape |-> IF f.nchannels = 1
               THEN <<ChunkBytes(f) \div f.sampwidth>>
               ELSE <<ChunkBytes(f) \div (f.sampwidth * f.nchannels),
                      f.nchannels>>]

\* abs(a - b) < 0.01 for quotients a, b with positive denominators, as the
\* values it can have: the code compares binary floating-point numbers, and
\* when the quotients differ by exactly 1/100 the rounding decides
Within100th(a, b) ==
    LET d == a.num * b.den - b.num * a.den
        ad == IF d < 0 THEN -d ELSE d
    IN  IF 100 * ad < a.den * b.den THEN {TRUE}
        ELSE IF 100 * ad > a.den * b.den THEN {FALSE}
        ELSE BOOLEAN

\* the three comparisons of verify_analysis with the reference reader,
\* as the values their conjunction can have
AgreesWithReference(info, f) ==
    LET ref == WavfileRead(f)
        scipy_duration == [num |-> ref.shape[1], den |-> ref.rate]
        scipy_channels == IF Len(ref.shape) = 1 THEN 1 ELSE ref.shape[2]
    IN  {/\ info.sample_rate = ref.rate
         /\ within
         /\ info.channels = scipy_channels :
            within \in Within100th(info.duration, scipy_duration)}

\* the frames the header declares and the file does not hold
MissingFrames(f) ==
    (f.declared - ChunkBytes(f)) \div (f.nchannels * f.sampwidth)

HasAudioContent(waveform) ==
    /\ Len(waveform) > 0
    /\ \E i \in DOMAIN waveform : waveform[i] # waveform[1]

\* C5: for every loaded waveform with audio content, analyze_audio_levels
\* reports avg_db > 0 and rms_db > 0.
C5_LevelsPositive ==
    (audio_levels # NoneVal /\ HasAudioContent(wave_data.waveform)) =>
        /\ DbPositive(audio_levels.avg_db)
        /\ DbPositive(audio_levels.rms_db)

\* C6 as stated: with audio content the dynamic range is strictly between
\* 10 dB and 150 dB.
C6_Original ==
    (audio_levels # NoneVal /\ HasAudioContent(wave_data.waveform)) =>
        /\ RangeAbove10(audio_levels.db_range.dynamic_range)
        /\ RangeBelow150(audio_levels.db_range.dynamic_range)

\* C6 (amended): with audio content the dynamic range is at least 0 dB and
\* strictly below 150 dB.
C6_RangeBounds ==
    (audio_levels # NoneVal /\ HasAudioContent(wave_data.waveform)) =>
        /\ RangeAtLeast0(audio_levels.db_range.dynamic_range)
        /\ RangeBelow150(audio_levels.db_range.dynamic_range)

\* levels of a waveform whose largest amplitude exceeds its smallest
\* non-zero one
C6_Witness ==
    /\ audio_levels # NoneVal /\ HasAudioContent(wave_data.waveform)
    /\ audio_levels.db_range.dynamic_range.kind = "ratio"
    /\ audio_levels.db_range.dynamic_range.num
          > audio_levels.db_range.dynamic_range.den
    /\ RangeAbove10(audio_levels.db_range.dynamic_range)

(***************************************************************************)
(* detect_harmonics called on its own, for waveforms long enough to have   *)
(* several spectral peaks.                                                 *)
(***************************************************************************)
MaxFftLen == 13

HarmRates == Rates \cup {0}

HarmCounts == {1, 2, NumHarmonicsDefault}

HarmInit ==
    /\ hm_n \in 0..MaxFftLen
    /\ hm_sample_rate \in HarmRates
    /\ hm_num_harmonics \in HarmCounts
    /\ hm_magnitude = <<>>
    /\ hm_result = NoneVal
    /\ hm_pc = "detect_harmonics"
    /\ RunIdle
    /\ DashIdle
    /\ DspIdle

\* detect_harmonics(waveform, sample_rate, num_harmonics)
HarmDetectHarmonics ==
    /\ hm_pc = "detect_harmonics"
    /\ \E magnitude \in Spectra(hm_n) :
       \E r \in detect_harmonics(magnitude, hm_n, hm_sample_rate,
                                 hm_num_harmonics) :
           /\ hm_magnitude' = magnitude
           /\ hm_result' = r
    /\ hm_pc' = "done"
    /\ UNCHANGED <<hm_n, hm_sample_rate, hm_num_harmonics, runVars, dashVars,
                   dspVars>>

HarmNext == HarmDetectHarmonics

SpecHarm == HarmInit /\ [][HarmNext]_vars

\* f = j * g for an integer j, for frequencies kept as fractions
IsIntegerMultiple(f, g) == (f.num * g.den) % (g.num * f.den) = 0

\* C7: in the list detect_harmonics returns, every entry after the first
\* has a frequency that is an integer multiple of the first entry's
\* frequency (the first entry is the fundamental, the others its harmonics).
C7_IntegerMultiples ==
    (hm_pc = "done" /\ hm_result.ok) =>
        \A j \in 2..Len(hm_result.val) :
            IsIntegerMultiple(hm_result.val[j].frequency,
                              hm_result.val[1].frequency)

\* the bin of a returned entry, and the magnitude the spectrum has there
BinOf(h) == h.frequency.num \div hm_sample_rate

MagnitudeOf(h) == hm_magnitude[BinOf(h)]

\* the peaks of the spectrum that reach 1% of its largest magnitude
QualifyingPeaks ==
    IF hm_magnitude = <<>> THEN {}
    ELSE FindPeaks(hm_magnitude, SetMax(Range(hm_magnitude)))

\* C8: detect_harmonics returns at most num_harmonics entries, each a peak
\* at a positive frequency with at least 1% of the largest magnitude, in
\* non-increasing order of magnitude; no peak left out is larger than a
\* returned one; and it returns the empty list when there is no such peak.
C8_TopPeaks ==
    (hm_pc = "done" /\ hm_n >= 1 /\ hm_sample_rate > 0) =>
        /\ hm_result.ok
        /\ LET list == hm_result.val
               bins == {BinOf(list[i]) : i \in DOMAIN list}
           IN  /\ Len(list) <= hm_num_harmonics
               /\ \A i \in DOMAIN list :
                    /\ list[i].frequency.num > 0
                    /\ BinOf(list[i]) \in QualifyingPeaks
               /\ \A i \in 1..(Len(list) - 1) :
                    MagnitudeOf(list[i]) >= MagnitudeOf(list[i + 1])
               /\ \A k \in QualifyingPeaks \ bins : \A i \in DOMAIN list :
                    hm_magnitude[k] <= MagnitudeOf(list[i])
               /\ (QualifyingPeaks = {}) => (list = <<>>)

\* C9: for every loaded waveform of at least one sample,
\* create_all_visualizations returns a dictionary whose keys are exactly the
\* six keys waveform, spectrum, spectrogram, psd, phase and histogram, the
\* keys render_visualizations reads.
C9_SixFigures ==
    (/\ "create_all_visualizations" \in Range(steps)
     /\ Len(wave_data.waveform) >= 1) =>
        /\ figures # NoneVal
        /\ DOMAIN figures = RenderedKeys
        /\ RenderedKeys = Range(FigureKeys)

(***************************************************************************)
(* The dashboard (streamlit_app.py).  Streamlit runs main() from top to    *)
(* bottom once when the session opens and once after every widget event;   *)
(* st.session_state outlives the runs.  The script runs in a thread of its *)
(* own: a widget event can arrive while a run is under way, and the runner *)
(* then stops that run at its next st.* call and starts another.  An       *)
(* upload is kept by its name, its size in bytes and the file it holds.    *)
(***************************************************************************)
MaxFileSizeMb == 50

BytesPerMb == 1024 * 1024

FftWindowDefault == 1024

FftWindows == {256, 512, 1024, 2048, 4096, 8192}

Some(v) == [some |-> v]

\* file_size_mb > 50, with file_size_mb = size / (1024 * 1024); the
\* division by a power of two is exact
TooLargeInclusive(size) == size >= MaxFileSizeMb * BytesPerMb

TooLarge(size) == size > MaxFileSizeMb * BytesPerMb

DefaultKeys ==
    {"analysis_complete", "file_info", "audio_levels", "figures", "waveform",
     "sample_rate", "duration", "harmonics", "uploaded_filename"}

Defaults ==
    [k \in DefaultKeys |->
        IF k = "analysis_complete" THEN Some(FALSE) ELSE NoneVal]

\* a key gets its default only when the session state lacks it
init_session_state(ss) ==
    [k \in DOMAIN ss \cup DefaultKeys |->
        IF k \in DOMAIN ss THEN ss[k] ELSE Defaults[k]]

\* st.session_state[key] = value
SetItem(ss, key, value) ==
    [k \in DOMAIN ss \cup {key} |-> IF k = key THEN value ELSE ss[k]]

\* render_sidebar writes the slider's value in every run
render_sidebar(ss, value) == SetItem(ss, "fft_window", Some(value))

\* the spectra the dashboard's uploads are taken to have
DashMagValues == {0, 200}

\* The outcomes of analyze_audio(uploaded_file): the dict it returns, or
\* the exception of the first step that fails.
analyze_audio(up) ==
    LET info   == get_wave_info(up.content)
        wd     == load_wave_data(up.content)
        levels == analyze_audio_levels(wd.val.waveform)
        n      == Len(wd.val.waveform)
        figs   == create_all_visualizations(n, wd.val.sample_rate)
    IN  {Raise("OSError")}        \* convert_audio_to_wav could not write
        \cup
        IF ~info.ok THEN {info}
        ELSE IF ~wd.ok THEN {wd}
        ELSE IF ~levels.ok THEN {levels}
        ELSE UNION {
            {IF ~h.ok THEN h
             ELSE IF ~figs.ok THEN figs
             ELSE Ok([file_info |-> info.val, audio_levels |-> levels.val,
                      figures |-> figs.val, waveform |-> wd.val.waveform,
                      sample_rate |-> wd.val.sample_rate,
                      duration |-> wd.val.duration, harmonics |-> h.val,
                      wav_path |-> "tmp_path"]) :
                h \in detect_harmonics(magnitude, n, wd.val.sample_rate,
                                       NumHarmonicsDefault)} :
            magnitude \in [1..PosBins(n) -> DashMagValues]}

\* main() stores the results after a successful analysis, key by key
StoreKeys ==
    <<"analysis_complete", "file_info", "audio_levels", "figures",
      "waveform", "sample_rate", "duration", "harmonics",
      "uploaded_filename">>

StoreValue(res, name, k) ==
    CASE k = "analysis_complete" -> Some(TRUE)
      [] k = "file_info"         -> Some(res.file_info)
      [] k = "audio_levels"      -> Some(res.audio_levels)
      [] k = "figures"           -> Some(res.figures)
      [] k = "waveform"          -> Some(res.waveform)
      [] k = "sample_rate"       -> Some(res.sample_rate)
      [] k = "duration"          -> Some(res.duration)
      [] k = "harmonics"         -> Some(res.harmonics)
      [] k = "uploaded_filename" -> Some(name)

\* the entries the results section reads with a subscript or a method
DisplayKeys ==
    {"file_info", "audio_levels", "harmonics", "uploaded_filename",
     "waveform", "figures"}

Displayable(ss) == \A k \in DisplayKeys : ss[k] # NoneVal

UploadSizes ==
    {MaxFileSizeMb * BytesPerMb - 1, MaxFileSizeMb * BytesPerMb,
     MaxFileSizeMb * BytesPerMb + 1}

\* a file the analysis succeeds on, at each size, and one that is no WAV
\* file
Uploads ==
    {[name |-> "tone.wav", size |-> sz,
      content |-> WavFile(Periodic(8, 1, 4), 1, 2, 8000)] :
        sz \in UploadSizes}
    \cup {[name |-> "notes.wav", size |-> MaxFileSizeMb * BytesPerMb,
           content |-> NotAWavFile]}

\* the positions the user moves the slider to
SliderMoves ==
    {w \in FftWindows : FftWindowDefault <= w /\ w <= 4 * FftWindowDefault}

DashInit ==
    /\ session = <<>>
    /\ session0 = <<>>
    /\ uploaded = NoneVal
    /\ slider = FftWindowDefault
    /\ clicked = FALSE
    /\ pending = TRUE
    /\ screen = {}
    /\ calls = <<>>
    /\ widgets = {}
    /\ fast_reruns \in BOOLEAN
    /\ main_pc = "idle"
    /\ stop = FALSE
    /\ fft_window = NoneVal
    /\ uploaded_file = NoneVal
    /\ results = NoneVal
    /\ stored = 0
    /\ RunIdle
    /\ HmIdle
    /\ DspIdle

config == <<fast_reruns, runVars, hmVars, dspVars>>

locals == <<fft_window, uploaded_file, results, stored>>

Running == main_pc # "idle"

\* A widget event asks for a run with the widgets' new values.  A run that
\* is under way is asked to stop; it has taken the button's value with it,
\* while a request still waiting is merged with the new one and keeps it.
Event(click) ==
    /\ pending' = TRUE
    /\ stop' = Running
    /\ clicked' = (click \/ (clicked /\ (~Running \/ stop)))
    /\ UNCHANGED <<session, session0, screen, calls, widgets, main_pc,
                   locals, config>>

\* the user puts a file into the uploader
Upload ==
    /\ "uploader" \in widgets
    /\ \E up \in Uploads : up # uploaded /\ uploaded' = up
    /\ Event(FALSE)
    /\ UNCHANGED slider

\* the user removes it
RemoveUpload ==
    /\ "uploader" \in widgets
    /\ uploaded # NoneVal
    /\ uploaded' = NoneVal
    /\ Event(FALSE)
    /\ UNCHANGED slider

\* the user moves the window-size slider
MoveSlider ==
    /\ "slider" \in widgets
    /\ \E w \in SliderMoves : w # slider /\ slider' = w
    /\ Event(FALSE)
    /\ UNCHANGED uploaded

\* the user presses the Analyze button the browser shows
ClickAnalyze ==
    /\ "button" \in widgets
    /\ ~clicked
    /\ Event(TRUE)
    /\ UNCHANGED <<uploaded, slider>>

\* the runner starts the run that is due, once the last one has ended
StartRun ==
    /\ pending
    /\ ~Running
    /\ main_pc' = "init_session_state"
    /\ pending' = FALSE
    /\ stop' = FALSE
    /\ session0' = session
    /\ screen' = {}
    /\ calls' = <<>>
    /\ UNCHANGED <<session, uploaded, slider, clicked, widgets, locals,
                   config>>

\* a write of st.session_state takes effect, unless the run has been asked
\* to stop and the runner has cut it off from the session (fastReruns)
Effective == ~stop \/ ~fast_reruns

\* a step of the run that changes main_pc, the session and the locals
Step(next, ss, fw, uf, res, n) ==
    /\ main_pc' = next
    /\ session' = ss
    /\ fft_window' = fw
    /\ uploaded_file' = uf
    /\ results' = res
    /\ stored' = n
    /\ UNCHANGED <<uploaded, slider, pending, stop, session0, config>>

\* a st.* call of a run that has not been asked to stop
Shows(elements) ==
    /\ ~stop
    /\ screen' = screen \cup elements

\* the script comes to its end after `elements`: the browser drops what
\* the run did not display, and the button's value is used up
EndRun(elements, rerun) ==
    /\ Shows(elements)
    /\ main_pc' = "idle"
    /\ pending' = rerun
    /\ clicked' = FALSE
    /\ widgets' = {"slider", "uploader"} \cup (screen' \cap {"button"})
    /\ fft_window' = NoneVal
    /\ uploaded_file' = NoneVal
    /\ results' = NoneVal
    /\ UNCHANGED <<session, uploaded, slider, stop, session0, calls, stored,
                   config>>

\* main, line 296
InitSessionState ==
    /\ main_pc = "init_session_state"
    /\ Step("select_slider",
            IF Effective THEN init_session_state(session) ELSE session,
            fft_window, uploaded_file, results, stored)
    /\ UNCHANGED <<clicked, screen, calls, widgets>>

\* render_sidebar up to fft_window = st.select_slider(...)
SelectSlider ==
    /\ main_pc = "select_slider"
    /\ Shows({})
    /\ widgets' = widgets \cup {"slider"}
    /\ Step("set_fft_window", session, Some(slider), uploaded_file, results,
            stored)
    /\ UNCHANGED <<clicked, calls>>

\* st.session_state['fft_window'] = fft_window
SetFftWindow ==
    /\ main_pc = "set_fft_window"
    /\ Step("render_upload_section",
            IF Effective THEN render_sidebar(session, fft_window.some)
            ELSE session,
            NoneVal, uploaded_file, results, stored)
    /\ UNCHANGED <<clicked, screen, calls, widgets>>

\* the rest of the sidebar, the header, and
\* uploaded_file = render_upload_section()
RenderUploadSection ==
    /\ main_pc = "render_upload_section"
    /\ Shows({})
    /\ widgets' = widgets \cup {"uploader"}
    /\ Step("size_check", session, fft_window, uploaded, results, stored)
    /\ UNCHANGED <<clicked, calls>>

\* lines 303-312: the welcome page, the size check, st.error or st.info
SizeCheck ==
    /\ main_pc = "size_check"
    /\ IF uploaded_file = NoneVal
       THEN EndRun({"welcome"}, FALSE)
       ELSE IF TooLarge(uploaded_file.size)
       THEN EndRun({"error_too_large"}, FALSE)
       ELSE /\ Shows({"info"})
            /\ Step("button", session, fft_window, uploaded_file, results,
                    stored)
            /\ UNCHANGED <<clicked, calls, widgets>>

\* if st.button(...)
Button ==
    /\ main_pc = "button"
    /\ Shows({"button"})
    /\ widgets' = widgets \cup {"button"}
    /\ clicked' = FALSE
    /\ Step(IF clicked THEN "spinner" ELSE "show_results", session,
            fft_window, uploaded_file, results, stored)
    /\ UNCHANGED calls

\* with st.spinner(...)
Spinner ==
    /\ main_pc = "spinner"
    /\ Shows({})
    /\ Step("analyze_audio", session, fft_window, uploaded_file, results,
            stored)
    /\ UNCHANGED <<clicked, calls, widgets>>

\* results = analyze_audio(uploaded_file)
AnalyzeAudio ==
    /\ main_pc = "analyze_audio"
    /\ calls' = Append(calls, uploaded_file)
    /\ \E r \in analyze_audio(uploaded_file) :
        IF r.ok
        THEN Step("store", session, fft_window, uploaded_file, r.val, 0)
        ELSE Step("error_analyzing", session, fft_window, uploaded_file,
                  NoneVal, 0)
    /\ UNCHANGED <<clicked, screen, widgets>>

\* one of the assignments of lines 321-329
StoreResult ==
    /\ main_pc = "store"
    /\ LET k == StoreKeys[stored + 1]
           v == StoreValue(results, uploaded_file.name, k)
           last == stored + 1 = Len(StoreKeys)
       IN  Step(IF last THEN "unlink" ELSE "store",
                IF Effective THEN SetItem(session, k, v) ELSE session,
                fft_window, uploaded_file, results,
                IF last THEN 0 ELSE stored + 1)
    /\ UNCHANGED <<clicked, screen, calls, widgets>>

\* lines 332-333: the temporary file is removed; os.unlink can raise (the
\* file is in use, or gone), and the except clause of main catches it
Unlink ==
    /\ main_pc = "unlink"
    /\ \E ok \in BOOLEAN :
        Step(IF ok THEN "success" ELSE "error_analyzing", session,
             fft_window, uploaded_file, NoneVal, stored)
    /\ UNCHANGED <<clicked, screen, calls, widgets>>

\* st.success(...)
Success ==
    /\ main_pc = "success"
    /\ Shows({"success"})
    /\ Step("rerun", session, fft_window, uploaded_file, results, stored)
    /\ UNCHANGED <<clicked, calls, widgets>>

\* st.rerun() ends the run and asks for another
Rerun ==
    /\ main_pc = "rerun"
    /\ EndRun({}, TRUE)

\* the except clause of main: st.error(...) and return
ErrorAnalyzing ==
    /\ main_pc = "error_analyzing"
    /\ EndRun({"error_analyzing"}, FALSE)

\* lines 339-445: the results, when the session holds an analysis; reading
\* an entry that is still None raises and Streamlit displays the exception
ShowResults ==
    /\ main_pc = "show_results"
    /\ EndRun(IF session["analysis_complete"].some
              THEN (IF Displayable(session) THEN {"results"}
                    ELSE {"exception"})
              ELSE {},
              FALSE)

\* the places where the run is inside a st.* call
StCalls ==
    {"select_slider", "render_upload_section", "size_check", "button",
     "spinner", "success", "rerun", "error_analyzing", "show_results"}

\* the runner stops a run that has been asked to, at its next st.* call
StopRun ==
    /\ stop
    /\ main_pc \in StCalls
    /\ main_pc' = "idle"
    /\ stop' = FALSE
    /\ fft_window' = NoneVal
    /\ uploaded_file' = NoneVal
    /\ results' = NoneVal
    /\ UNCHANGED <<session, uploaded, slider, clicked, pending, screen, calls,
                   session0, widgets, stored, config>>

\* one run of main(), step by step
Main ==
    \/ StartRun
    \/ InitSessionState
    \/ SelectSlider
    \/ SetFftWindow
    \/ RenderUploadSection
    \/ SizeCheck
    \/ Button
    \/ Spinner
    \/ AnalyzeAudio
    \/ StoreResult
    \/ Unlink
    \/ Success
    \/ Rerun
    \/ ErrorAnalyzing
    \/ ShowResults
    \/ StopRun

DashNext ==
    \/ Upload
    \/ RemoveUpload
    \/ MoveSlider
    \/ ClickAnalyze
    \/ Main

SpecDash == DashInit /\ [][DashNext]_vars

\* a run of main() has come to its end and no other is due: `uploaded` is
\* the file that run saw
AfterRun == ~Running /\ ~pending /\ screen # {}

\* no call of analyze_audio has been given a file of more than 50 MB
NoOversizeCall ==
    \A i \in DOMAIN calls : calls[i].size <= 50 * 1024 * 1024

\* C10 as stated: a run that finds an upload of more than 50 MB shows the
\* error and nothing else, offers no Analyze button, does not call
\* analyze_audio, displays no results and leaves the session state as it
\* found it; an upload of 50 MB or less gets past the size check.
C10_Original ==
    /\ NoOversizeCall
    /\ (AfterRun /\ uploaded # NoneVal) =>
        IF uploaded.size > 50 * 1024 * 1024
        THEN /\ screen = {"error_too_large"}
             /\ calls = <<>>
             /\ session = session0
        ELSE /\ "error_too_large" \notin screen
             /\ {"info", "button"} \subseteq screen

\* C10 (amended): as above, but of the session state the run leaves the
\* analysis results as it found them; it does write the slider's value to
\* fft_window.
C10_SizeLimit ==
    /\ NoOversizeCall
    /\ (AfterRun /\ uploaded # NoneVal) =>
        IF uploaded.size > 50 * 1024 * 1024
        THEN /\ screen = {"error_too_large"}
             /\ calls = <<>>
             /\ DOMAIN session = DOMAIN session0
             /\ \A k \in DOMAIN session0 \ {"fft_window"} :
                    session[k] = session0[k]
             /\ session["fft_window"] = Some(slider)
        ELSE /\ "error_too_large" \notin screen
             /\ {"info", "button"} \subseteq screen

\* a run that found an oversized upload while the session held the results
\* of an earlier analysis, after the slider was moved
C10_Witness ==
    /\ AfterRun /\ uploaded # NoneVal
    /\ uploaded.size > 50 * 1024 * 1024
    /\ session["analysis_complete"].some
    /\ session["fft_window"] # session0["fft_window"]
    /\ screen = {"error_too_large"}

(***************************************************************************)
(* The plots of perform_complete_analysis and the options of main.py.      *)
(***************************************************************************)
\* the plot functions called so far, in order
PlotsInvoked == [i \in DOMAIN plot_calls |-> plot_calls[i].fn]

BothPlots == <<"plot_waveform", "plot_spectrogram">>

KindOf(fn) == IF fn = "plot_waveform" THEN "waveform" ELSE "spectrogram"

\* some plot was given a path under the figures directory
PathsPassed ==
    \E i \in DOMAIN plot_calls :
        /\ plot_calls[i].save_path # NoneVal
        /\ plot_calls[i].save_path.dir = FiguresDir

\* C11 as stated: a call of perform_complete_analysis that has ended
\* invoked the waveform and the spectrogram plot exactly when show_plots,
\* and created the figures directory and passed paths under it exactly
\* when show_plots and save_figures; with show_plots false nothing is
\* plotted, created or written; the options of the menu satisfy
\* save_figures => show_plots.
C11_Original ==
    (mode = "cli" /\ pc = "done") =>
        /\ show_plots <=> (PlotsInvoked = BothPlots)
        /\ (show_plots /\ save_figures) <=>
                (FiguresDir \in fs_dirs /\ PathsPassed)
        /\ ~show_plots =>
                (plot_calls = <<>> /\ fs_dirs = {} /\ fs_files = {})
        /\ options # NoneVal => (options.save_figures => options.show_plots)

\* C11 (amended): the plots are invoked only when show_plots is true, the
\* waveform plot first, and a call that returns a result has invoked both
\* exactly when show_plots is true; every invoked plot is passed its path
\* under the created figures directory when save_figures is true and None
\* otherwise; the directory is created only when both flags are true, and
\* by every call that returns a result with both flags true; with
\* show_plots false nothing is plotted, created or written; main.py calls
\* with the flags of one of the three options, which all satisfy
\* save_figures => show_plots.
C11_PlotsAndPaths ==
    mode = "cli" =>
        /\ IsPrefix(PlotsInvoked, BothPlots)
        /\ plot_calls # <<>> => show_plots
        /\ Completed => (show_plots <=> (PlotsInvoked = BothPlots))
        /\ \A i \in DOMAIN plot_calls :
              IF save_figures
              THEN /\ plot_calls[i].save_path =
                        [dir |-> FiguresDir,
                         name |-> KindOf(plot_calls[i].fn)]
                   /\ FiguresDir \in fs_dirs
              ELSE plot_calls[i].save_path = NoneVal
        /\ fs_dirs \subseteq {FiguresDir}
        /\ fs_dirs # {} => (show_plots /\ save_figures)
        /\ Completed => ((show_plots /\ save_figures) <=> FiguresDir \in fs_dirs)
        /\ \A f \in fs_files : f.dir = FiguresDir
        /\ fs_files # {} => (show_plots /\ save_figures)
        /\ ~show_plots =>
                (plot_calls = <<>> /\ fs_dirs = {} /\ fs_files = {})
        /\ options # NoneVal =>
                /\ options \in Range(options_list)
                /\ options.save_figures => options.show_plots
                /\ show_plots = options.show_plots
                /\ save_figures = options.save_figures

\* a run of main.py with the option "Save figures to files" that returned
\* its result after both plots were saved under the figures directory
C11_Witness ==
    /\ mode = "cli" /\ Completed
    /\ options # NoneVal /\ options.save_figures
    /\ PlotsInvoked = BothPlots
    /\ PathsPassed
    /\ FiguresDir \in fs_dirs
    /\ Cardinality(fs_files) = 2

(***************************************************************************)
(* The Butterworth filters (audio_processing.py), each called on its own.  *)
(* Normalized frequencies are kept as fractions num/den with den > 0; the  *)
(* filter design and the filtering are scipy's, and a filtered waveform is *)
(* kept as the design and the input it was computed from.                  *)
(***************************************************************************)
\* the array a call returns: the waveform it was given
Same(waveform) == [same |-> TRUE, samples |-> waveform]

Frac(n, d) ==
    IF d < 0 THEN [num |-> -n, den |-> -d] ELSE [num |-> n, den |-> d]

FracLe(a, b) == a.num * b.den <= b.num * a.den

FracLt(a, b) == a.num * b.den < b.num * a.den

\* nyquist = sample_rate / 2, then freq / nyquist
Normalized(freq, sample_rate) ==
    IF sample_rate = 0 THEN Raise("ZeroDivisionError")
    ELSE Ok(Frac(2 * freq, sample_rate))

\* signal.butter(order, Wn, btype, analog=False): every critical frequency
\* must lie strictly between 0 and 1, and the band edges must increase
Butter(order, Wn, btype) ==
    IF \E i \in DOMAIN Wn :
           ~(FracLt(Frac(0, 1), Wn[i]) /\ FracLt(Wn[i], Frac(1, 1)))
    THEN Raise("ValueError")
    ELSE IF btype = "band" /\ ~FracLt(Wn[1], Wn[2])
    THEN Raise("ValueError")
    ELSE Ok([order |-> order, Wn |-> Wn, btype |-> btype,
             ntaps |-> IF btype = "band" THEN 2 * order + 1 ELSE order + 1])

\* signal.filtfilt(b, a, waveform): the input must be longer than
\* padlen = 3 * max(len(a), len(b))
FiltFilt(ba, waveform) ==
    IF Len(waveform) <= 3 * ba.ntaps THEN Raise("ValueError")
    ELSE Ok([same |-> FALSE, samples |-> [filtfilt |-> ba, x |-> waveform]])

\* b, a = signal.butter(...); signal.filtfilt(b, a, waveform).astype(dtype)
Filtered(order, Wn, btype, waveform) ==
    LET ba == Butter(order, Wn, btype)
    IN  IF ~ba.ok THEN ba ELSE FiltFilt(ba.val, waveform)

\* normalized_cutoff > 1
CutoffTooHighStrict(normalized_cutoff) ==
    FracLt(Frac(1, 1), normalized_cutoff)

\* normalized_cutoff >= 1
CutoffTooHigh(normalized_cutoff) == FracLe(Frac(1, 1), normalized_cutoff)

\* normalized_cutoff <= 0
CutoffTooLow(normalized_cutoff) == FracLe(normalized_cutoff, Frac(0, 1))

apply_lowpass_filter(waveform, sample_rate, cutoff_freq, order) ==
    LET normalized_cutoff == Normalized(cutoff_freq, sample_rate)
    IN  IF ~normalized_cutoff.ok THEN normalized_cutoff
        ELSE IF CutoffTooHigh(normalized_cutoff.val) THEN Ok(Same(waveform))
        ELSE Filtered(order, <<normalized_cutoff.val>>, "low", waveform)

apply_highpass_filter(waveform, sample_rate, cutoff_freq, order) ==
    LET normalized_cutoff == Normalized(cutoff_freq, sample_rate)
    IN  IF ~normalized_cutoff.ok THEN normalized_cutoff
        ELSE IF CutoffTooLow(normalized_cutoff.val) THEN Ok(Same(waveform))
        ELSE Filtered(order, <<normalized_cutoff.val>>, "high", waveform)

\* if low <= 0: low = 0.001
ClampLow(low) == IF FracLe(low, Frac(0, 1)) THEN Frac(1, 1000) ELSE low

\* high = 0.999 only if high > 1
ClampHighStrict(high) ==
    IF FracLt(Frac(1, 1), high) THEN Frac(999, 1000) ELSE high

\* if high >= 1: high = 0.999
ClampHigh(high) ==
    IF FracLe(Frac(1, 1), high) THEN Frac(999, 1000) ELSE high

apply_bandpass_filter(waveform, sample_rate, low_freq, high_freq, order) ==
    LET low0  == Normalized(low_freq, sample_rate)
        high0 == Normalized(high_freq, sample_rate)
        low   == ClampLow(low0.val)
        high  == ClampHigh(high0.val)
    IN  IF ~low0.ok THEN low0
        ELSE IF FracLe(high, low) THEN Ok(Same(waveform))
        ELSE Filtered(order, <<low, high>>, "band", waveform)

DspRates == {0, 7, 8000}

\* around 0, around 0.001 and 0.999 of the Nyquist frequency of 8000 Hz,
\* and around both Nyquist frequencies
DspFreqs == {-100, 0, 3, 4, 5, 3996, 4000, 5000}

DspOrders == {1, 5}

\* short waveforms, and waveforms just long enough for filtfilt with a
\* low-pass or a band-pass design of either order
DspWaveforms ==
    SeqsUpTo({-32768, 0, 3}, 2)
    \cup {Periodic(n, 3, -3) : n \in {7, 10, 19, 34}}

FilterNames ==
    {"apply_lowpass_filter", "apply_highpass_filter", "apply_bandpass_filter"}

FilterInit ==
    /\ dsp_fn \in FilterNames
    /\ dsp_waveform \in DspWaveforms
    /\ dsp_sample_rate \in DspRates
    /\ dsp_low \in DspFreqs
    /\ dsp_high \in IF dsp_fn = "apply_bandpass_filter" THEN DspFreqs ELSE {0}
    /\ dsp_order \in DspOrders
    /\ dsp_result = NoneVal
    /\ dsp_pc = "call"
    /\ RunIdle
    /\ HmIdle
    /\ DashIdle

\* what a call leaves alone
DspFrame ==
    UNCHANGED <<dsp_fn, dsp_waveform, dsp_sample_rate, dsp_low, dsp_high,
                dsp_order, runVars, hmVars, dashVars>>

ApplyLowpassFilter ==
    /\ dsp_pc = "call" /\ dsp_fn = "apply_lowpass_filter"
    /\ dsp_result' = apply_lowpass_filter(dsp_waveform, dsp_sample_rate,
                                          dsp_low, dsp_order)
    /\ dsp_pc' = "done"
    /\ DspFrame

ApplyHighpassFilter ==
    /\ dsp_pc = "call" /\ dsp_fn = "apply_highpass_filter"
    /\ dsp_result' = apply_highpass_filter(dsp_waveform, dsp_sample_rate,
                                           dsp_low, dsp_order)
    /\ dsp_pc' = "done"
    /\ DspFrame

ApplyBandpassFilter ==
    /\ dsp_pc = "call" /\ dsp_fn = "apply_bandpass_filter"
    /\ dsp_result' = apply_bandpass_filter(dsp_waveform, dsp_sample_rate,
                                           dsp_low, dsp_high, dsp_order)
    /\ dsp_pc' = "done"
    /\ DspFrame

FilterNext ==
    \/ ApplyLowpassFilter
    \/ ApplyHighpassFilter
    \/ ApplyBandpassFilter

SpecFilter == FilterInit /\ [][FilterNext]_vars

\* the call returned the waveform it was given
ReturnedInput ==
    /\ dsp_result.ok
    /\ dsp_result.val.same
    /\ dsp_result.val.samples = dsp_waveform

\* C12 as stated: apply_lowpass_filter returns the input waveform unchanged
\* when the cutoff frequency is at or above the Nyquist frequency
\* sample_rate/2, and apply_highpass_filter returns it unchanged when the
\* cutoff frequency is zero or negative.
C12_Original ==
    dsp_pc = "done" =>
        /\ (dsp_fn = "apply_lowpass_filter" /\ 2 * dsp_low >= dsp_sample_rate)
              => ReturnedInput
        /\ (dsp_fn = "apply_highpass_filter" /\ dsp_low <= 0)
              => ReturnedInput

\* C12 (amended): the same for a positive sample rate; with a sample rate
\* of 0 both functions raise ZeroDivisionError, whatever the cutoff.
C12_Unchanged ==
    /\ (dsp_pc = "done" /\ dsp_sample_rate > 0) =>
        /\ (dsp_fn = "apply_lowpass_filter" /\ 2 * dsp_low >= dsp_sample_rate)
              => ReturnedInput
        /\ (dsp_fn = "apply_highpass_filter" /\ dsp_low <= 0)
              => ReturnedInput
    /\ (/\ dsp_pc = "done" /\ dsp_sample_rate = 0
        /\ dsp_fn \in {"apply_lowpass_filter", "apply_highpass_filter"}) =>
        /\ ~dsp_result.ok
        /\ dsp_result.err = "ZeroDivisionError"

\* a low-pass call with the cutoff exactly at the Nyquist frequency that
\* returned its input
C12_Witness ==
    /\ dsp_pc = "done" /\ dsp_fn = "apply_lowpass_filter"
    /\ dsp_sample_rate > 0 /\ 2 * dsp_low = dsp_sample_rate
    /\ Len(dsp_waveform) > 0
    /\ ReturnedInput

\* the normalized band edges of the call, before and after clamping
LowEdge == Frac(2 * dsp_low, dsp_sample_rate)

HighEdge == Frac(2 * dsp_high, dsp_sample_rate)

ClampedLow ==
    IF LowEdge.num <= 0 THEN [num |-> 1, den |-> 1000] ELSE LowEdge

ClampedHigh ==
    IF HighEdge.num >= HighEdge.den THEN [num |-> 999, den |-> 1000]
    ELSE HighEdge

\* C13: apply_bandpass_filter clamps a normalized low edge <= 0 to 0.001
\* and a normalized high edge >= 1 to 0.999; when after clamping
\* low >= high it returns the input waveform unchanged; otherwise the edges
\* it designs the filter with are the clamped ones and satisfy
\* 0 < low < high < 1 (the call then fails only when the waveform is too
\* short to be filtered).
C13_BandEdges ==
    (/\ dsp_pc = "done" /\ dsp_fn = "apply_bandpass_filter"
     /\ dsp_sample_rate # 0) =>
        IF FracLe(ClampedHigh, ClampedLow)
        THEN ReturnedInput
        ELSE /\ FracLt(Frac(0, 1), ClampedLow)
             /\ FracLt(ClampedLow, ClampedHigh)
             /\ FracLt(ClampedHigh, Frac(1, 1))
             /\ IF Len(dsp_waveform) > 3 * (2 * dsp_order + 1)
                THEN /\ dsp_result.ok
                     /\ ~dsp_result.val.same
                     /\ dsp_result.val.samples.filtfilt.Wn
                            = <<ClampedLow, ClampedHigh>>
                ELSE ~dsp_result.ok

\* a band-pass call with a low edge of 0 or less and a high edge at the
\* Nyquist frequency or above, which filtered with the edges 0.001 and 0.999
C13_Witness ==
    /\ dsp_pc = "done" /\ dsp_fn = "apply_bandpass_filter"
    /\ dsp_sample_rate > 0
    /\ dsp_low <= 0 /\ 2 * dsp_high >= dsp_sample_rate
    /\ dsp_result.ok /\ ~dsp_result.val.same
    /\ dsp_result.val.samples.filtfilt.Wn
          = <<[num |-> 1, den |-> 1000], [num |-> 999, den |-> 1000]>>

(***************************************************************************)
(* normalize_waveform (tools.py) on an int16 waveform, called on its own.  *)
(* A sample of the divided waveform is kept as the fraction num/den.       *)
(***************************************************************************)
normalize_waveform(waveform) ==
    LET max_val == NpMax(AbsAll(waveform))
    IN  IF ~max_val.ok THEN max_val
        ELSE IF max_val.val > 0
        THEN Ok([same |-> FALSE,
                 samples |-> [i \in DOMAIN waveform |->
                                 [num |-> waveform[i], den |-> max_val.val]]])
        ELSE Ok(Same(waveform))

NormValues == {-32768, -3, 0, 1, 32767}

NormInit ==
    /\ dsp_fn = "normalize_waveform"
    /\ dsp_waveform \in SeqsUpTo(NormValues, MaxSamples)
    /\ dsp_sample_rate = 0 /\ dsp_low = 0 /\ dsp_high = 0 /\ dsp_order = 0
    /\ dsp_result = NoneVal
    /\ dsp_pc = "call"
    /\ RunIdle
    /\ HmIdle
    /\ DashIdle

NormalizeWaveform ==
    /\ dsp_pc = "call" /\ dsp_fn = "normalize_waveform"
    /\ dsp_result' = normalize_waveform(dsp_waveform)
    /\ dsp_pc' = "done"
    /\ DspFrame

NormNext == NormalizeWaveform

SpecNorm == NormInit /\ [][NormNext]_vars

\* the i-th sample of the returned waveform lies in [-1, 1]
InUnitRange(array, i) ==
    IF array.same
    THEN -1 <= array.samples[i] /\ array.samples[i] <= 1
    ELSE /\ -array.samples[i].den <= array.samples[i].num
         /\ array.samples[i].num <= array.samples[i].den

\* C14: for every waveform of 16-bit samples, samples of -32768 included,
\* every sample of the waveform normalize_waveform returns lies in
\* [-1, 1]; an all-zero waveform is returned unchanged.
C14_UnitRange ==
    (dsp_pc = "done" /\ dsp_fn = "normalize_waveform"
     /\ Len(dsp_waveform) > 0) =>
        /\ dsp_result.ok
        /\ \A i \in DOMAIN dsp_waveform : InUnitRange(dsp_result.val, i)
        /\ (\A i \in DOMAIN dsp_waveform : dsp_waveform[i] = 0)
              => ReturnedInput

====
